---------------------------- MODULE Spec2Model ----------------------------
(***************************************************************************)
(* Model of the retrieval core of the legal RAG system:                    *)
(*   - HybridRetriever (src/src/retrieval/hybrid_retriever.py):            *)
(*     BM25 + dense search, min-max normalisation, weighted fusion,        *)
(*     interpretation-link boost / injection, diversification;             *)
(*   - InterpretationAwareRetriever                                        *)
(*     (src/src/retrieval/interpretation_aware_retriever.py): dense-only   *)
(*     variant with per-statute boost and diversification;                 *)
(*   - the interpretation_links table both of them query.                  *)
(* Scores are Python floats in the source; they are modelled as exact      *)
(* rationals [n, d] kept in lowest terms.                                  *)
(***************************************************************************)
EXTENDS Integers, Sequences, FiniteSets, TLC

(***************************************************************************)
(* Bounds of the model.                                                    *)
(***************************************************************************)
MaxHits == 2          \* longest answer of one index search
MaxRaw == 2           \* BM25 scores range over 1..MaxRaw, FAISS distances over 0..MaxRaw-1
MaxLinks == 2         \* rows in interpretation_links
MaxK == 2             \* largest k a caller asks for
MaxCap == 1           \* largest configured max_interpretive_cases
MaxScenario == 5      \* size of the largest scenario of one call

(***************************************************************************)
(* Exact rational arithmetic for the float scores.                         *)
(***************************************************************************)
RECURSIVE GCD(_, _)
GCD(a, b) == IF b = 0 THEN a ELSE GCD(b, a % b)

Rat(n, d) == LET g == GCD(n, d) IN [n |-> n \div g, d |-> d \div g]

Zero == [n |-> 0, d |-> 1]
One == [n |-> 1, d |-> 1]

RAdd(x, y) == Rat(x.n * y.d + y.n * x.d, x.d * y.d)
RSub(x, y) == Rat(x.n * y.d - y.n * x.d, x.d * y.d)
RMul(x, y) == Rat(x.n * y.n, x.d * y.d)
RDiv(x, y) == Rat(x.n * y.d, x.d * y.n)
RLeq(x, y) == x.n * y.d <= y.n * x.d
RLt(x, y) == x.n * y.d < y.n * x.d

RECURSIVE RSum(_)
RSum(s) == IF s = <<>> THEN Zero ELSE RAdd(Head(s), RSum(Tail(s)))

Min2(a, b) == IF a <= b THEN a ELSE b


(***************************************************************************)
(* The corpus: the rows of the documents table (id and doc_type).          *)
(***************************************************************************)
Cases == {"K1", "K2"}
Statutes == {"S1", "S2"}
Docs == Cases \cup Statutes
DocType(d) == IF d \in Statutes THEN "statute" ELSE "case"
NoStatute == "none"

(***************************************************************************)
(* Sequence helpers.                                                       *)
(***************************************************************************)
Prefix(s, n) == SubSeq(s, 1, Min2(n, Len(s)))
Range(s) == {s[i] : i \in 1..Len(s)}
Ids(s) == [i \in 1..Len(s) |-> s[i].doc_id]
HasId(s, id) == \E i \in 1..Len(s) : s[i].doc_id = id
IndexOfId(s, id) == CHOOSE i \in 1..Len(s) : s[i].doc_id = id

\* Python dict assignment merged[doc_id] = r: an existing key keeps its
\* position, a new key goes last.
Upsert(acc, r) ==
    IF HasId(acc, r.doc_id)
    THEN [acc EXCEPT ![IndexOfId(acc, r.doc_id)] = r]
    ELSE Append(acc, r)

\* sorted(results, key=score, reverse=True): stable, descending.
RECURSIVE SortAcc(_, _)
SortAcc(s, acc) ==
    IF s = <<>> THEN acc
    ELSE LET r == Head(s)
             p == Cardinality({i \in 1..Len(acc) : RLeq(r.score, acc[i].score)})
         IN SortAcc(Tail(s), SubSeq(acc, 1, p) \o <<r>> \o SubSeq(acc, p + 1, Len(acc)))

\* Variant: results with equal scores come out in reverse order.
SortDescTiesReversed(s) == SortAcc([i \in 1..Len(s) |-> s[Len(s) + 1 - i]], <<>>)

SortDesc(s) == SortAcc(s, <<>>)

(***************************************************************************)
(* HybridRetriever: the two searches.  A hit of an index is                *)
(* [doc_id, raw]: raw is the BM25 _score, or the FAISS L2 distance.        *)
(***************************************************************************)
Result(id, type, score, src) ==
    [doc_id |-> id, doc_type |-> type, score |-> score, source |-> src,
     bm25_score |-> Zero, dense_score |-> Zero,
     interpretive_boost |-> Zero, interprets_statute |-> NoStatute]

\* _bm25_search: the hits in Elasticsearch order; [] when the search raises.
Bm25Search(hits, fails) ==
    IF fails THEN <<>>
    ELSE [i \in 1..Len(hits) |->
            Result(hits[i].doc_id, DocType(hits[i].doc_id), Rat(hits[i].raw, 1), "bm25")]

\* _dense_search: similarity = 1 / (1 + distance); [] when the embedding
\* call or the FAISS search raises.
DenseSearch(hits, fails) ==
    IF fails THEN <<>>
    ELSE [i \in 1..Len(hits) |->
            Result(hits[i].doc_id, DocType(hits[i].doc_id), Rat(1, 1 + hits[i].raw), "dense")]

(***************************************************************************)
(* _normalize_scores: min-max scaling into [0, 1].                         *)
(***************************************************************************)
MinScore(rs) == (CHOOSE r \in Range(rs) : \A q \in Range(rs) : RLeq(r.score, q.score)).score
MaxScore(rs) == (CHOOSE r \in Range(rs) : \A q \in Range(rs) : RLeq(q.score, r.score)).score

NormalizeScores(rs) ==
    IF rs = <<>> THEN rs
    ELSE LET lo == MinScore(rs)
             hi == MaxScore(rs)
         IN IF hi = lo
            THEN [i \in 1..Len(rs) |-> [rs[i] EXCEPT !.score = One]]
            ELSE [i \in 1..Len(rs) |->
                    [rs[i] EXCEPT !.score = RDiv(RSub(rs[i].score, lo), RSub(hi, lo))]]

(***************************************************************************)
(* _merge_results: weighted fusion keyed by doc_id, sorted, cut at k.      *)
(***************************************************************************)
bm25_weight == Rat(2, 5)
dense_weight == Rat(2, 5)
MergeK == 500

RECURSIVE MergeBm25(_, _)
MergeBm25(rs, merged) ==
    IF rs = <<>> THEN merged
    ELSE LET r == Head(rs)
         IN MergeBm25(Tail(rs),
                Upsert(merged, [r EXCEPT !.bm25_score = r.score,
                                         !.dense_score = Zero,
                                         !.score = RMul(bm25_weight, r.score)]))

RECURSIVE MergeDense(_, _)
MergeDense(rs, merged) ==
    IF rs = <<>> THEN merged
    ELSE LET r == Head(rs)
         IN MergeDense(Tail(rs),
                IF HasId(merged, r.doc_id)
                THEN LET i == IndexOfId(merged, r.doc_id)
                     IN [merged EXCEPT ![i].dense_score = r.score,
                                       ![i].score = RAdd(merged[i].score,
                                                         RMul(dense_weight, r.score))]
                ELSE Append(merged, [r EXCEPT !.bm25_score = Zero,
                                              !.dense_score = r.score,
                                              !.score = RMul(dense_weight, r.score)]))

\* Variant: the merged entries are cut in the order they were merged.
MergeResultsUnsorted(bm25_results, dense_results, k) ==
    Prefix(MergeDense(NormalizeScores(dense_results),
                      MergeBm25(NormalizeScores(bm25_results), <<>>)), k)

MergeResults(bm25_results, dense_results, k) ==
    Prefix(SortDesc(MergeDense(NormalizeScores(dense_results),
                               MergeBm25(NormalizeScores(bm25_results), <<>>))), k)


(***************************************************************************)
(* The interpretation_links table.  A row is                               *)
(*   [statute_id, case_id, boost_factor, applicability_score, verified]    *)
(* with verified one of "true", "false", "null" and applicability_score    *)
(* in tenths, or ApplNull for SQL NULL.                                    *)
(***************************************************************************)
ApplNull == -1
BoostMin == Rat(1, 1)
BoostMax == Rat(5, 1)

\* ORDER BY boost_factor DESC, applicability_score DESC: PostgreSQL puts
\* NULLs first in a descending sort.
ApplRank(a) == IF a = ApplNull THEN 11 ELSE a
OrderKeyGeq(a, b) ==
    \/ RLt(b.boost_factor, a.boost_factor)
    \/ /\ a.boost_factor = b.boost_factor
       /\ ApplRank(a.applicability_score) >= ApplRank(b.applicability_score)

\* The rows the WHERE clause of HybridRetriever selects.
HybridLinkRows(table, statute_ids) ==
    {l \in table : l.statute_id \in statute_ids /\ l.verified \in {"true", "null"}}

\* Every order in which the database may return a set of rows: rows with
\* equal sort keys come in an order the query does not determine.
RowOrders(rows) ==
    {o \in [1..Cardinality(rows) -> rows] :
        /\ \A i, j \in 1..Cardinality(rows) : i # j => o[i] # o[j]
        /\ \A i, j \in 1..Cardinality(rows) : i < j => OrderKeyGeq(o[i], o[j])}

(***************************************************************************)
(* HybridRetriever._apply_interpretation_boost, for one order `rows` of    *)
(* the query's answer.                                                     *)
(***************************************************************************)
AnchorWindow == 20
AvgWindow == 10
SyntheticPenalty == Rat(7, 10)

\* Step 1: statutes among the top 20 results.
AnchorStatutes(results) ==
    {results[i].doc_id : i \in {j \in 1..Min2(AnchorWindow, Len(results)) :
                                  results[j].doc_type = "statute"}}

\* Step 3: case_boost_map, first row of each case_id wins; keys in
\* insertion order.
RECURSIVE CaseBoostMap(_, _)
CaseBoostMap(rows, map) ==
    IF rows = <<>> THEN map
    ELSE LET l == Head(rows)
         IN CaseBoostMap(Tail(rows),
                IF \E i \in 1..Len(map) : map[i].case_id = l.case_id
                THEN map
                ELSE Append(map, [case_id |-> l.case_id,
                                  boost_factor |-> l.boost_factor,
                                  statute_id |-> l.statute_id]))

MapEntry(map, id) == map[CHOOSE i \in 1..Len(map) : map[i].case_id = id]
InMap(map, id) == \E i \in 1..Len(map) : map[i].case_id = id

\* Step 4: boost the results that are keys of the map.
BoostExisting(results, map) ==
    [i \in 1..Len(results) |->
        IF InMap(map, results[i].doc_id)
        THEN LET e == MapEntry(map, results[i].doc_id)
             IN [results[i] EXCEPT !.score = RMul(results[i].score, e.boost_factor),
                                   !.interpretive_boost = e.boost_factor,
                                   !.interprets_statute = e.statute_id]
        ELSE results[i]]

\* Step 5: ids counted as already present, and the synthetic base score.
ExistingCaseIds(results) ==
    {results[i].doc_id : i \in {j \in 1..Len(results) : results[j].doc_type = "case"}}

AvgScore(results) ==
    IF results = <<>> THEN Rat(1, 2)
    ELSE RDiv(RSum([i \in 1..Min2(AvgWindow, Len(results)) |-> results[i].score]),
              Rat(Min2(AvgWindow, Len(results)), 1))

RECURSIVE InjectMissing(_, _, _, _)
InjectMissing(map, existing, synthetic_score, results) ==
    IF map = <<>> THEN results
    ELSE LET e == Head(map)
         IN InjectMissing(Tail(map), existing, synthetic_score,
                IF e.case_id \notin existing /\ e.case_id \in Docs
                THEN Append(results,
                        [Result(e.case_id, "case",
                                RMul(synthetic_score, e.boost_factor),
                                "interpretation_link")
                            EXCEPT !.interprets_statute = e.statute_id])
                ELSE results)

ApplyInterpretationBoost(results, rows) ==
    IF AnchorStatutes(results) = {} \/ rows = <<>> THEN results
    ELSE LET map == CaseBoostMap(rows, <<>>)
             boosted == BoostExisting(results, map)
         IN InjectMissing(map, ExistingCaseIds(boosted),
                          RMul(SyntheticPenalty, AvgScore(boosted)), boosted)

(***************************************************************************)
(* HybridRetriever._diversify_results.                                     *)
(***************************************************************************)
RECURSIVE DiversifyAcc(_, _, _, _, _)
DiversifyAcc(rs, count, diversified, k, cap) ==
    IF rs = <<>> THEN diversified
    ELSE LET r == Head(rs)
             s == r.interprets_statute
         IN IF s # NoStatute /\ count[s] >= cap
            THEN DiversifyAcc(Tail(rs), count, diversified, k, cap)
            ELSE LET count2 == IF s # NoStatute
                               THEN [count EXCEPT ![s] = count[s] + 1]
                               ELSE count
                     div2 == Append(diversified, r)
                 IN IF Len(div2) >= k THEN div2
                    ELSE DiversifyAcc(Tail(rs), count2, div2, k, cap)

\* Variant: one more result per statute passes the count test.
DiversifyResultsOverCap(results, k, cap) ==
    DiversifyAcc(SortDesc(results), [d \in Docs |-> 0], <<>>, k, cap + 1)

DiversifyResults(results, k, cap) ==
    DiversifyAcc(SortDesc(results), [d \in Docs |-> 0], <<>>, k, cap)


(***************************************************************************)
(* InterpretationAwareRetriever: dense search, per-statute boost,          *)
(* diversification.                                                        *)
(***************************************************************************)
dense_k_multiplier == 3

\* _dense_search has no exception handler; the caller sees the hits of the
\* first k * dense_k_multiplier positions with similarity 1 / (1 + distance).
IADenseSearch(hits, k) ==
    [i \in 1..Min2(k, Len(hits)) |->
        Result(hits[i].doc_id, DocType(hits[i].doc_id), Rat(1, 1 + hits[i].raw), "dense")]

\* _extract_statute_ids
IAExtractStatuteIds(candidates) ==
    {candidates[i].doc_id : i \in {j \in 1..Len(candidates) :
                                     candidates[j].doc_type = "statute"}}

\* The rows the WHERE clause of _get_interpretation_links selects (the JOIN
\* keeps the rows whose case document exists).
IALinkRows(table, statute_ids) ==
    {l \in table : l.statute_id \in statute_ids /\ l.verified = "true"
                   /\ l.case_id \in Docs}

\* ORDER BY il.boost_factor DESC, il.confidence DESC: confidence is not a
\* field of the modelled row, so any order that is descending in
\* boost_factor can be returned.
IARowOrders(rows) ==
    {o \in [1..Cardinality(rows) -> rows] :
        /\ \A i, j \in 1..Cardinality(rows) : i # j => o[i] # o[j]
        /\ \A i, j \in 1..Cardinality(rows) :
              i < j => RLeq(o[j].boost_factor, o[i].boost_factor)}

\* interpretation_map: statute ids in order of first appearance, each with
\* its rows in query order.
RECURSIVE IAStatuteOrder(_, _)
IAStatuteOrder(rows, acc) ==
    IF rows = <<>> THEN acc
    ELSE IAStatuteOrder(Tail(rows),
            IF \E i \in 1..Len(acc) : acc[i] = Head(rows).statute_id
            THEN acc ELSE Append(acc, Head(rows).statute_id))

RECURSIVE IARowsOf(_, _)
IARowsOf(rows, statute_id) ==
    IF rows = <<>> THEN <<>>
    ELSE IF Head(rows).statute_id = statute_id
         THEN <<Head(rows)>> \o IARowsOf(Tail(rows), statute_id)
         ELSE IARowsOf(Tail(rows), statute_id)

\* Inner loop of _apply_interpretation_boost for one statute.  st is
\* [cands, added]; n_orig is the length of the candidate list before
\* injections (existing_ids are the ids of those positions).
RECURSIVE IABoostCases(_, _, _, _, _)
IABoostCases(cases, statute_id, statute_score, n_orig, st) ==
    IF cases = <<>> THEN st
    ELSE LET c == Head(cases)
             existing == {st.cands[i].doc_id : i \in 1..n_orig}
             st2 ==
               IF c.case_id \in existing
               THEN LET i == CHOOSE j \in 1..Len(st.cands) :
                                /\ st.cands[j].doc_id = c.case_id
                                /\ \A m \in 1..(j - 1) : st.cands[m].doc_id # c.case_id
                    IN [st EXCEPT !.cands[i].score =
                                      RMul(st.cands[i].score, c.boost_factor),
                                  !.cands[i].interprets_statute = statute_id]
               ELSE IF c.case_id \notin st.added
               THEN [cands |-> Append(st.cands,
                        [Result(c.case_id, "case",
                                RMul(RMul(statute_score, SyntheticPenalty), c.boost_factor),
                                "interpretation_link")
                            EXCEPT !.interprets_statute = statute_id]),
                     added |-> st.added \cup {c.case_id}]
               ELSE st
         IN IABoostCases(Tail(cases), statute_id, statute_score, n_orig, st2)

RECURSIVE IABoostStatutes(_, _, _, _, _)
IABoostStatutes(statutes, rows, cap, n_orig, st) ==
    IF statutes = <<>> THEN st
    ELSE LET s == Head(statutes)
             statute_score ==
               IF \E i \in 1..n_orig : st.cands[i].doc_id = s
               THEN st.cands[CHOOSE i \in 1..n_orig :
                                /\ st.cands[i].doc_id = s
                                /\ \A m \in 1..(i - 1) : st.cands[m].doc_id # s].score
               ELSE Rat(1, 2)
         IN IABoostStatutes(Tail(statutes), rows, cap, n_orig,
                IABoostCases(Prefix(IARowsOf(rows, s), cap), s, statute_score, n_orig, st))

IAApplyInterpretationBoost(candidates, rows, cap) ==
    IABoostStatutes(IAStatuteOrder(rows, <<>>), rows, cap, Len(candidates),
                    [cands |-> candidates, added |-> {}]).cands

\* _diversify_and_rerank: same walk as the hybrid retriever's, keyed on
\* is_interpretive (set exactly when interprets_statute is).
IADiversifyAndRerank(candidates, k, cap) ==
    DiversifyAcc(SortDesc(candidates), [d \in Docs |-> 0], <<>>, k, cap)


(***************************************************************************)
(* State.                                                                  *)
(*   links   the rows of interpretation_links                              *)
(*   config  the RetrievalConfig the retriever was constructed with        *)
(*   call    the retrieve call that has just returned (or raised) to its   *)
(*           caller, with what it was given, what it read and what it      *)
(*           computed; status "idle" between calls                         *)
(***************************************************************************)
VARIABLES links, config, call

vars == <<links, config, call>>

(***************************************************************************)
(* State of ingestion.                                                     *)
(*   store   the rows of the documents table                               *)
(*   loader  the options the PostgresLoader was constructed with           *)
(*   run     the ingestion run that has just ended, with what it was       *)
(*           given, the table it started from, the order in which it       *)
(*           flushed the documents, and the IngestionResult it built;      *)
(*           status "none" before the first run                            *)
(***************************************************************************)
VARIABLES store, loader, run

ingestVars == <<store, loader, run>>

\* PostgresLoader.__init__ defaults.
DefaultLoader == [skip_existing |-> TRUE, allow_duplicates |-> FALSE]

NoRun ==
    [status |-> "none", entry |-> "none", documents |-> <<>>, batch_size |-> 0,
     before |-> {}, again |-> FALSE, order |-> <<>>,
     inserted_ids |-> {}, skipped_ids |-> {}, failed_ids |-> {}, errors |-> 0,
     result_status |-> "none"]

IngestStart ==
    /\ store = {}
    /\ loader = DefaultLoader
    /\ run = NoRun

(***************************************************************************)
(* State of link extraction.                                               *)
(*   extraction  the extraction job that has just ended: a run of the      *)
(*               extraction pipeline with what the extractors returned     *)
(*               and the merged list, or a run of one of the scripts that  *)
(*               insert extracted links into interpretation_links, with    *)
(*               the rows it offered; kind "none" before the first job     *)
(***************************************************************************)
VARIABLES extraction

extractVars == <<extraction>>

NoExtraction ==
    [kind |-> "none", rule_based |-> <<>>, llm_assisted |-> <<>>,
     all_links |-> <<>>, links_data |-> <<>>]

ExtractStart == extraction = NoExtraction

(***************************************************************************)
(* State of the dense index on disk and of the processes that use it.      *)
(*   index_file    the FAISS index file: the generation it was written     *)
(*                 from, and whether the write has finished                *)
(*   mapping_file  the id-mapping file, likewise                           *)
(*   reindex       the reindex job: where it is, and its generation        *)
(*   reader        a process that builds a retriever to answer a query:    *)
(*                 where it is, and what it has loaded from the two files  *)
(***************************************************************************)
VARIABLES index_file, mapping_file, reindex, reader

reindexVars == <<index_file, mapping_file, reindex, reader>>

Written(gen) == [gen |-> gen, complete |-> TRUE]
Partial(gen) == [gen |-> gen, complete |-> FALSE]
NotLoaded == [gen |-> -1, complete |-> FALSE]

NoReader == [pc |-> "idle", index |-> NotLoaded, mapping |-> NotLoaded]

\* The files as an undisturbed first run of the reindex job leaves them.
ReindexStart ==
    /\ index_file = Written(0)
    /\ mapping_file = Written(0)
    /\ reindex = [pc |-> "idle", gen |-> 0, empty |-> FALSE]
    /\ reader = NoReader

(***************************************************************************)
(* State of answer validation.                                             *)
(*   validation  the request being validated: the stage it has reached,    *)
(*               the scores and stage errors so far, the decision, the     *)
(*               count of failed stages and the warnings                   *)
(***************************************************************************)
VARIABLES validation

validationVars == <<validation>>

NewRequest ==
    [stage |-> "init", s |-> 0, h |-> 0, errors |-> {}, decision |-> "none",
     stages_failed |-> 0, warnings |-> {}, decided_after |-> "none"]

ValidationStart == validation = NewRequest

(***************************************************************************)
(* The synthesis scorer.                                                   *)
(*                                                                         *)
(*   scoring     the result of the last score_answer call: the four        *)
(*               section scores, the overall score and the verdict         *)
(***************************************************************************)
VARIABLES scoring

scoringVars == <<scoring>>

NotScored ==
    [scored |-> FALSE, statute |-> 0, interpretation |-> 0, synthesis |-> 0,
     practical_effect |-> 0, overall |-> 0, passed |-> FALSE]

ScoringStart == scoring = NotScored

(***************************************************************************)
(* One HybridRetriever.retrieve call followed through its blocking points. *)
(*                                                                         *)
(*   request     where the call stands (idle, waiting for the lexical      *)
(*               search, waiting for the dense search, returned), the      *)
(*               time it has taken, what the searches gave, the list it    *)
(*               returned and whether that list is marked as partial       *)
(***************************************************************************)
VARIABLES request

requestVars == <<request>>

NoRequest ==
    [pc |-> "idle", clock |-> 0, k |-> 0, bm25_results |-> <<>>,
     dense_results |-> <<>>, timed_out |-> {}, results |-> <<>>,
     partial |-> FALSE]

RequestStart == request = NoRequest

(***************************************************************************)
(* _apply_interpretation_boost of either retriever, applied on its own.    *)
(*                                                                         *)
(*   boosting    the retriever whose boost ran, the list and the link      *)
(*               rows it was given, and the list it gave back              *)
(***************************************************************************)
VARIABLES boosting

boostingVars == <<boosting>>

NotBoosted ==
    [retriever |-> "none", results |-> <<>>, rows |-> <<>>, out |-> <<>>]

BoostingStart == boosting = NotBoosted

(***************************************************************************)
(* The rate limiting middleware.                                           *)
(*                                                                         *)
(*   limiter     the clock, request_counts (per API key the timestamps     *)
(*               recorded and not yet cleaned), the response to the last   *)
(*               request, and the history of the requests let through      *)
(***************************************************************************)
VARIABLES limiter

limiterVars == <<limiter>>

ApiKeys == {"key-1", "anonymous"}

NoResponse == [api_key |-> "none", path |-> "none", status |-> 0, seen |-> 0]

NewLimiter ==
    [now |-> 0, request_counts |-> [a \in ApiKeys |-> <<>>],
     passed |-> [a \in ApiKeys |-> <<>>], last |-> NoResponse]

LimiterStart == limiter = NewLimiter

(***************************************************************************)
(* generate_embeddings of scripts/initialize_faiss.py.                     *)
(*                                                                         *)
(*   embedding   one run: where it stands, the number of texts, the batch  *)
(*               size, the start of the current batch, retry_count and     *)
(*               the list `embeddings` (entry j > 0 is the embedding of    *)
(*               text j, entry 0 a zero vector)                            *)
(***************************************************************************)
VARIABLES embedding

embeddingVars == <<embedding>>

NoEmbedding ==
    [pc |-> "idle", texts |-> 0, batch_size |-> 0, i |-> 0, retry_count |-> 0,
     embeddings |-> <<>>]

EmbeddingStart == embedding = NoEmbedding

(***************************************************************************)
(* The review queue of the dashboard.                                      *)
(*                                                                         *)
(*   review      the validation_results rows (review_status, reviewer_id,  *)
(*               reviewer_feedback), what each reviewer's page shows of    *)
(*               the item it rendered, and the first review of each row    *)
(***************************************************************************)
VARIABLES review

reviewVars == <<review>>

MaxResults == 2
ResultIds == 1..MaxResults
Reviewers == {"alice", "bob"}

\* Column defaults of a stored ValidationResult.
Unreviewed ==
    [review_status |-> "pending", reviewer_id |-> "none",
     reviewer_feedback |-> "none"]

NoPage == [id |-> 0, review_status |-> "none"]

NewQueue ==
    [results |-> [id \in ResultIds |-> Unreviewed],
     pages |-> [r \in Reviewers |-> NoPage],
     first |-> [id \in ResultIds |-> Unreviewed]]

ReviewStart == review = NewQueue

\* What the operations of each part leave alone.
beyondRetrieval == <<ingestVars, extractVars, reindexVars, validationVars, scoringVars, requestVars, boostingVars, limiterVars, embeddingVars, reviewVars>>
beyondIngestion == <<vars, extractVars, reindexVars, validationVars, scoringVars, requestVars, boostingVars, limiterVars, embeddingVars, reviewVars>>
beyondExtraction == <<config, call, ingestVars, reindexVars, validationVars, scoringVars, requestVars, boostingVars, limiterVars, embeddingVars, reviewVars>>
beyondReindex == <<vars, ingestVars, extractVars, validationVars, scoringVars, requestVars, boostingVars, limiterVars, embeddingVars, reviewVars>>
beyondValidation == <<vars, ingestVars, extractVars, reindexVars, scoringVars, requestVars, boostingVars, limiterVars, embeddingVars, reviewVars>>
beyondScoring == <<vars, ingestVars, extractVars, reindexVars, validationVars, requestVars, boostingVars, limiterVars, embeddingVars, reviewVars>>
beyondRequest == <<vars, ingestVars, extractVars, reindexVars, validationVars, scoringVars, boostingVars, limiterVars, embeddingVars, reviewVars>>
beyondBoosting == <<vars, ingestVars, extractVars, reindexVars, validationVars, scoringVars, requestVars, limiterVars, embeddingVars, reviewVars>>
beyondLimiter == <<vars, ingestVars, extractVars, reindexVars, validationVars, scoringVars, requestVars, boostingVars, embeddingVars, reviewVars>>
beyondEmbedding == <<vars, ingestVars, extractVars, reindexVars, validationVars, scoringVars, requestVars, boostingVars, limiterVars, reviewVars>>
beyondReview == <<vars, ingestVars, extractVars, reindexVars, validationVars, scoringVars, requestVars, boostingVars, limiterVars, embeddingVars>>

top_k == 10

\* K2 is a stored case that no search returns for the query.
IndexedDocs == Docs \ {"K2"}

\* Rows an offline job tries to insert; 6.0 is outside every schema's range.
BoostCandidates == {Rat(2, 1), Rat(5, 1), Rat(6, 1)}
ApplCandidates == {ApplNull}
VerifiedValues == {"true", "false", "null"}
LinkCandidates ==
    {l \in [statute_id : Statutes, case_id : Docs, boost_factor : BoostCandidates,
            applicability_score : ApplCandidates, verified : VerifiedValues] :
        l.case_id # l.statute_id}

\* Answers of one index search to the query: at most MaxHits distinct
\* documents, best first.
HitLists(raws) ==
    UNION {{h \in [1..n -> [doc_id : IndexedDocs, raw : raws]] :
              \A i, j \in 1..n : i # j => h[i].doc_id # h[j].doc_id}
           : n \in 0..MaxHits}
LexAnswers ==
    {h \in HitLists(1..MaxRaw) : \A i \in 1..(Len(h) - 1) : h[i].raw >= h[i + 1].raw}
DenseAnswers ==
    {h \in HitLists(0..(MaxRaw - 1)) : \A i \in 1..(Len(h) - 1) : h[i].raw <= h[i + 1].raw}

\* What can raise during a call: the Elasticsearch search, the dense side
\* (embedding call or FAISS search), the interpretation_links query.
FaultKinds == {"es", "dense", "db"}

Configs ==
    [max_interpretive_cases : 1..MaxCap,
     interpretation_boost_enabled : BOOLEAN,
     diversification_enabled : BOOLEAN]

B2N(b) == IF b THEN 1 ELSE 0

\* Size of a scenario: how far a call and the state it runs in are from the
\* smallest one.  A hit, a link row and a fault count one each; so does
\* each step by which a score, a link attribute, an option, k or the cap
\* departs from its first value.  The model explores every call whose
\* scenario has size at most MaxScenario.
RECURSIVE RawSum(_)
RawSum(hits) == IF hits = <<>> THEN 0 ELSE Head(hits).raw + RawSum(Tail(hits))

LexSize(lex) == RawSum(lex)
DenseSize(dense) == Len(dense) + RawSum(dense)

LinkSize(l) ==
    1 + B2N(l.boost_factor # Rat(2, 1)) + B2N(l.verified # "true")

RECURSIVE TableSize(_)
TableSize(table) ==
    IF table = {} THEN 0
    ELSE LET l == CHOOSE x \in table : TRUE
         IN LinkSize(l) + TableSize(table \ {l})

ConfigSize(cfg) ==
    (cfg.max_interpretive_cases - 1) + B2N(~cfg.interpretation_boost_enabled)
    + B2N(~cfg.diversification_enabled)

ScenarioSize(lex, dense, k, use_links, faults) ==
    LexSize(lex) + DenseSize(dense) + TableSize(links) + ConfigSize(config)
    + Cardinality(faults) + B2N(~use_links) + (k - 1)

\* The answers of each index of size at most n.
LexUpTo == [n \in 0..MaxScenario |-> {h \in LexAnswers : LexSize(h) <= n}]
DenseUpTo == [n \in 0..MaxScenario |-> {h \in DenseAnswers : DenseSize(h) <= n}]

Idle ==
    [status |-> "idle", retriever |-> "none", lex |-> <<>>, dense |-> <<>>,
     k |-> 0, use_links |-> FALSE, faults |-> {}, table |-> {}, rows |-> <<>>,
     merged |-> <<>>, boosted |-> <<>>, results |-> <<>>]

\* Retrieval at rest.
RetrievalStart ==
    /\ links = {}
    /\ config = [max_interpretive_cases |-> 1,
                 interpretation_boost_enabled |-> TRUE,
                 diversification_enabled |-> TRUE]
    /\ call = Idle

Init ==
    /\ links = {}
    /\ config \in Configs
    /\ call = Idle
    /\ IngestStart
    /\ ExtractStart
    /\ ReindexStart
    /\ ValidationStart
    /\ ReviewStart
    /\ EmbeddingStart
    /\ LimiterStart
    /\ BoostingStart
    /\ RequestStart
    /\ ScoringStart

(***************************************************************************)
(* An offline job inserts a row; the table's constraints accept it:        *)
(* ck_valid_boost_factor, the foreign keys to documents, and the unique    *)
(* index on (statute_id, case_id).  Rows are written between calls.        *)
(***************************************************************************)
TableAccepts(table, l) ==
    /\ RLeq(BoostMin, l.boost_factor) /\ RLeq(l.boost_factor, BoostMax)
    /\ l.statute_id \in Docs /\ l.case_id \in Docs
    /\ \A m \in table : ~(m.statute_id = l.statute_id /\ m.case_id = l.case_id)

InsertLink(l) ==
    /\ call.status = "idle"
    /\ Cardinality(links) < MaxLinks
    /\ TableAccepts(links, l)
    /\ TableSize(links \cup {l}) + ConfigSize(config) <= MaxScenario
    /\ links' = links \cup {l}
    /\ UNCHANGED <<config, call, beyondRetrieval>>

(***************************************************************************)
(* HybridRetriever.retrieve, the whole call.                               *)
(***************************************************************************)
EffectiveK(k) == IF k = 0 THEN top_k ELSE k

\* Steps 1-3.
HybridMerged(lex, dense, faults) ==
    MergeResults(Bm25Search(lex, "es" \in faults),
                 DenseSearch(dense, "dense" \in faults),
                 MergeK)

\* Variant: the caller's flag is not consulted.
BoostRequestedByConfig(use_links, cfg) == cfg.interpretation_boost_enabled

\* Step 4 is taken when the caller and the configuration both ask for it.
BoostRequested(use_links, cfg) == use_links /\ cfg.interpretation_boost_enabled

\* Variant: without diversification the sorted list is returned uncut.
HybridFinalUncut(boosted, k, cfg) ==
    IF cfg.diversification_enabled
    THEN DiversifyResults(boosted, k, cfg.max_interpretive_cases)
    ELSE SortDesc(boosted)

\* Step 5.
HybridFinal(boosted, k, cfg) ==
    IF cfg.diversification_enabled
    THEN DiversifyResults(boosted, k, cfg.max_interpretive_cases)
    ELSE Prefix(SortDesc(boosted), k)

HybridRetrieve(lex, dense, k, use_links, faults) ==
    /\ call.status = "idle"
    /\ ScenarioSize(lex, dense, k, use_links, faults) <= MaxScenario
    /\ LET merged == HybridMerged(lex, dense, faults)
           anchors == AnchorStatutes(merged)
           queried == BoostRequested(use_links, config) /\ anchors # {}
           base == [Idle EXCEPT !.retriever = "hybrid", !.lex = lex, !.dense = dense,
                                !.k = k, !.use_links = use_links, !.faults = faults,
                                !.table = links, !.merged = merged]
       IN IF queried /\ "db" \in faults
          THEN \* self.db.execute raises inside _apply_interpretation_boost
               call' = [base EXCEPT !.status = "raised"]
          ELSE \E rows \in (IF queried
                            THEN RowOrders(HybridLinkRows(links, anchors))
                            ELSE {<<>>}) :
                 LET boosted == IF queried
                                THEN ApplyInterpretationBoost(merged, rows)
                                ELSE merged
                 IN call' = [base EXCEPT
                               !.status = "returned", !.rows = rows,
                               !.boosted = boosted,
                               !.results = HybridFinal(boosted, EffectiveK(k), config)]
    /\ UNCHANGED <<links, config, beyondRetrieval>>

(***************************************************************************)
(* InterpretationAwareRetriever.retrieve, the whole call.  Nothing in it   *)
(* catches an exception of the embedding call, of FAISS or of the          *)
(* database.                                                               *)
(***************************************************************************)
IARetrieve(dense, k, faults) ==
    /\ call.status = "idle"
    /\ faults \subseteq {"dense", "db"}
    /\ ScenarioSize(<<>>, dense, k, TRUE, faults) <= MaxScenario
    /\ LET base == [Idle EXCEPT !.retriever = "interpretation_aware", !.dense = dense,
                                !.k = k, !.use_links = TRUE, !.faults = faults,
                                !.table = links]
           kk == EffectiveK(k)
           candidates == IADenseSearch(dense, kk * dense_k_multiplier)
           statute_ids == IAExtractStatuteIds(candidates)
           cap == config.max_interpretive_cases
       IN IF "dense" \in faults
          THEN call' = [base EXCEPT !.status = "raised"]
          ELSE IF candidates = <<>>
          THEN call' = [base EXCEPT !.status = "returned"]
          ELSE IF statute_ids # {} /\ "db" \in faults
          THEN call' = [base EXCEPT !.status = "raised", !.merged = candidates]
          ELSE \E rows \in IARowOrders(IALinkRows(links, statute_ids)) :
                 LET boosted == IAApplyInterpretationBoost(candidates, rows, cap)
                 IN call' = [base EXCEPT
                               !.status = "returned", !.rows = rows,
                               !.merged = candidates, !.boosted = boosted,
                               !.results = IADiversifyAndRerank(boosted, kk, cap)]
    /\ UNCHANGED <<links, config, beyondRetrieval>>

\* The caller takes the result; the retriever is ready for the next call.
Return ==
    /\ call.status # "idle"
    /\ call' = Idle
    /\ UNCHANGED <<links, config, beyondRetrieval>>

\* A caller invokes HybridRetriever.retrieve on some answers of the two
\* indexes, some k and flag, while some of the services fail.
HybridCall ==
    /\ call.status = "idle"
    /\ \E faults \in SUBSET FaultKinds, use_links \in BOOLEAN :
         LET room == MaxScenario - ScenarioSize(<<>>, <<>>, 1, use_links, faults)
         IN /\ room >= 0
            /\ \E lex \in LexUpTo[room] :
                 \E dense \in DenseUpTo[room - LexSize(lex)] :
                   \E k \in 1..Min2(MaxK, room - LexSize(lex) - DenseSize(dense) + 1) :
                     HybridRetrieve(lex, dense, k, use_links, faults)

\* A caller invokes InterpretationAwareRetriever.retrieve.
IACall ==
    /\ call.status = "idle"
    /\ \E faults \in SUBSET {"dense", "db"} :
         LET room == MaxScenario - ScenarioSize(<<>>, <<>>, 1, TRUE, faults)
         IN /\ room >= 0
            /\ \E dense \in DenseUpTo[room] :
                 \E k \in 1..Min2(MaxK, room - DenseSize(dense) + 1) :
                   IARetrieve(dense, k, faults)

Next ==
    \/ \E l \in LinkCandidates : InsertLink(l)
    \/ HybridCall
    \/ IACall
    \/ Return

Spec == Init /\ [][Next]_vars

(***************************************************************************)
(* Properties.                                                             *)
(***************************************************************************)
Returned == call.status = "returned"
Hybrid == call.retriever = "hybrid"
K == EffectiveK(call.k)

\* What the hybrid call asked of the link store.
Anchors == AnchorStatutes(call.merged)
Queried == Hybrid /\ BoostRequested(call.use_links, config) /\ Anchors # {}

Annotated(rs, s) == {i \in 1..Len(rs) : rs[i].interprets_statute = s}
Injected(rs) == {i \in 1..Len(rs) : rs[i].source = "interpretation_link"}
TheLink(table, s, c) == CHOOSE l \in table : l.statute_id = s /\ l.case_id = c

\* C1 (as claimed): in every list retrieve returns, at most
\* max_interpretive_cases results are annotated with interprets_statute = s,
\* for each statute s.
C1_CapInEveryList ==
    Returned =>
        \A s \in Docs :
            Cardinality(Annotated(call.results, s)) <= config.max_interpretive_cases

\* C1 (amended): the cap holds in every list returned by
\* InterpretationAwareRetriever.retrieve, and in every list returned by
\* HybridRetriever.retrieve when diversification_enabled is set.
C1_CapWhenDiversified ==
    (Returned /\ (~Hybrid \/ config.diversification_enabled)) =>
        \A s \in Docs :
            Cardinality(Annotated(call.results, s)) <= config.max_interpretive_cases

\* C1 witness: diversification dropped a result of a statute that had more
\* annotated candidate documents than the cap.
C1_Witness ==
    /\ Returned /\ Hybrid /\ config.diversification_enabled
    /\ \E s \in Docs :
         /\ Cardinality({call.boosted[i].doc_id : i \in Annotated(call.boosted, s)})
               > config.max_interpretive_cases
         /\ Cardinality(Annotated(call.results, s)) = config.max_interpretive_cases
         /\ Len(call.results) = K

\* C2 (as claimed): no unit_id appears more than once in the list retrieve
\* returns.
C2_NoDuplicateIds ==
    Returned =>
        \A i, j \in 1..Len(call.results) :
            i # j => call.results[i].doc_id # call.results[j].doc_id

\* C3 (as claimed): a case injected because it was not among the fused
\* results has score 0.7 * mean(top-10 fused, pre-boost scores) * boost_factor.
C3_SyntheticScore ==
    (Returned /\ Hybrid) =>
        \A i \in Injected(call.boosted) :
            ~HasId(call.merged, call.boosted[i].doc_id) =>
                call.boosted[i].score =
                    RMul(RMul(SyntheticPenalty, AvgScore(call.merged)),
                         MapEntry(CaseBoostMap(call.rows, <<>>),
                                  call.boosted[i].doc_id).boost_factor)

\* C4 (as claimed): every boosted or injected result of the returned list
\* rests on a link whose verified flag is true.
C4_OnlyVerifiedLinks ==
    Returned =>
        \A i \in 1..Len(call.results) :
            call.results[i].interprets_statute # NoStatute =>
                TheLink(call.table, call.results[i].interprets_statute,
                        call.results[i].doc_id).verified = "true"

\* C5: retrieve(q, k) with k >= 1 returns at most k results.
C5_AtMostK ==
    Returned => Len(call.results) <= K

\* C5 witness: cases were injected, the candidate list was longer than k,
\* and exactly k results came back.
C5_Witness ==
    /\ Returned /\ Hybrid
    /\ Injected(call.boosted) # {}
    /\ Len(call.boosted) > K
    /\ Len(call.results) = K

\* C6 (as claimed): when the embedding call or an index search fails, no
\* error reaches the caller of retrieve, and the ranking is the one built
\* from the other side.
C6_SearchFailureDegrades ==
    (call.status # "idle" /\ call.faults # {} /\ "db" \notin call.faults) =>
        /\ Returned
        /\ Hybrid =>
             call.merged =
                MergeResults(IF "es" \in call.faults THEN <<>>
                             ELSE Bm25Search(call.lex, FALSE),
                             IF "dense" \in call.faults THEN <<>>
                             ELSE DenseSearch(call.dense, FALSE),
                             MergeK)

\* C7 (as claimed): when the interpretation-link query fails, retrieve
\* returns the un-boosted fused ranking instead of raising.
C7_LinkStoreFailureSkipsBoost ==
    (call.status # "idle" /\ Hybrid /\ call.faults = {"db"}) =>
        /\ Returned
        /\ call.results = HybridFinal(call.merged, K, config)

\* C8: with use_interpretation_links = false, retrieve returns exactly the
\* first k entries of the fused ranking, same order, same scores.
C8_LinksOffIsFusedTopK ==
    (Returned /\ Hybrid /\ ~call.use_links) =>
        call.results = Prefix(call.merged, K)

\* C8 witness: links were switched off in a call whose fused ranking has an
\* anchor statute with a usable link, and is longer than k.
C8_Witness ==
    /\ Returned /\ Hybrid /\ ~call.use_links
    /\ config.interpretation_boost_enabled
    /\ HybridLinkRows(call.table, Anchors) # {}
    /\ Len(call.merged) > K

\* C9 (as claimed): on the same indexes, link table and configuration, the
\* same call returns the same list, whichever order the link query returns
\* rows of equal sort key in.
C9_Deterministic ==
    (Returned /\ Queried) =>
        \A rows \in RowOrders(HybridLinkRows(call.table, Anchors)) :
            HybridFinal(ApplyInterpretationBoost(call.merged, rows), K, config)
                = call.results

\* C10 (as claimed): after boosting, no score exceeds 3 times the maximum
\* pre-boost fused score.
C10_BoostBounded ==
    (Returned /\ Hybrid /\ call.merged # <<>>) =>
        \A i \in 1..Len(call.boosted) :
            RLeq(call.boosted[i].score,
                 RMul(Rat(3, 1), MaxScore(call.merged)))

\* C11 (as claimed): every interpretation link the store holds has
\* 1.0 <= boost_factor <= 3.0.
C11_BoostRange ==
    \A l \in links :
        RLeq(Rat(1, 1), l.boost_factor) /\ RLeq(l.boost_factor, Rat(3, 1))

\* Result a is at least as good as b on both normalized components and
\* better on one; a side that did not return a result counts as 0 for it.
Dominates(a, b) ==
    /\ RLeq(b.bm25_score, a.bm25_score)
    /\ RLeq(b.dense_score, a.dense_score)
    /\ RLt(b.bm25_score, a.bm25_score) \/ RLt(b.dense_score, a.dense_score)

\* C23: in the fused list of a hybrid call, before boosting, a result that
\* dominates another one on both normalized components stands before it.
C23_FusionMonotone ==
    (Hybrid /\ call.status # "idle") =>
        \A i, j \in 1..Len(call.merged) :
            Dominates(call.merged[i], call.merged[j]) => i < j

\* C23 witness: both searches answered, and a result found by the dense
\* search only dominates one the lexical search had merged before it.
C23_Witness ==
    /\ Hybrid /\ Returned
    /\ call.lex # <<>> /\ call.dense # <<>>
    /\ \E i, j \in 1..Len(call.merged) :
         /\ Dominates(call.merged[i], call.merged[j])
         /\ HasId(call.lex, call.merged[j].doc_id)
         /\ ~HasId(call.lex, call.merged[i].doc_id)

(***************************************************************************)
(* HybridRetriever.retrieve in time.  The call runs _bm25_search, then     *)
(* _dense_search, then steps 3 to 5; it waits for each search for as long  *)
(* as the search takes.  A search answers, or raises (which includes a     *)
(* timeout raised by the client library), or stays silent.  The clock      *)
(* counts the time since the call began.                                   *)
(***************************************************************************)
MaxClock == 2

\* The per-request deadline.
Deadline == MaxClock - 1

\* Answers of an index small enough for this part.
SearchSize == 2

\* retrieve is called: k = k or top_k, then the lexical search is sent.
Retrieve(k) ==
    /\ request.pc = "idle"
    /\ request' = [NoRequest EXCEPT !.pc = "bm25", !.k = EffectiveK(k)]
    /\ UNCHANGED beyondRequest

\* Time passes while the call waits for a search.
Tick ==
    /\ request.pc \in {"bm25", "dense"}
    /\ request.clock < MaxClock
    /\ request' = [request EXCEPT !.clock = @ + 1]
    /\ UNCHANGED beyondRequest

\* How a search ends when it ends: with an answer, or with an exception of
\* its client, which may be the client's own timeout.
Outcomes == {"answer", "error", "timeout"}

\* _bm25_search returns: the hits, or [] when es.search raised.
Bm25Returns(hits, outcome) ==
    /\ request.pc = "bm25"
    /\ request' = [request EXCEPT
                     !.pc = "dense",
                     !.bm25_results = Bm25Search(hits, outcome # "answer"),
                     !.timed_out = IF outcome = "timeout"
                                   THEN @ \cup {"bm25"} ELSE @]
    /\ UNCHANGED beyondRequest

\* Steps 3 to 5 on what the searches gave.  The list is returned as it is:
\* a result is a list of dicts and carries no mark.
Finish(bm25_results, dense_results, k) ==
    LET merged == MergeResults(bm25_results, dense_results, MergeK)
        rows == RowOrders(HybridLinkRows(links, AnchorStatutes(merged)))
        boosted == IF BoostRequested(TRUE, config)
                   THEN ApplyInterpretationBoost(merged,
                                                 CHOOSE r \in rows : TRUE)
                   ELSE merged
    IN HybridFinal(boosted, k, config)

\* _dense_search returns: the hits, or [] when the embedding call or the
\* index search raised; the rest of retrieve runs and the call returns.
DenseReturns(hits, outcome) ==
    /\ request.pc = "dense"
    /\ LET dense_results == DenseSearch(hits, outcome # "answer")
       IN request' = [request EXCEPT
                        !.pc = "returned",
                        !.dense_results = dense_results,
                        !.timed_out = IF outcome = "timeout"
                                      THEN @ \cup {"dense"} ELSE @,
                        !.results = Finish(request.bm25_results,
                                           dense_results, request.k),
                        !.partial = FALSE]
    /\ UNCHANGED beyondRequest

\* The caller takes the list.
TakeResults ==
    /\ request.pc = "returned"
    /\ request' = NoRequest
    /\ UNCHANGED beyondRequest

RequestInit ==
    /\ RequestStart
    /\ RetrievalStart
    /\ IngestStart
    /\ ExtractStart
    /\ ReindexStart
    /\ ValidationStart
    /\ ReviewStart
    /\ EmbeddingStart
    /\ LimiterStart
    /\ BoostingStart
    /\ ScoringStart

RequestNext ==
    \/ \E k \in 0..MaxK : Retrieve(k)
    \/ Tick
    \/ \E hits \in LexUpTo[SearchSize], outcome \in Outcomes :
         Bm25Returns(hits, outcome)
    \/ \E hits \in DenseUpTo[SearchSize], outcome \in Outcomes :
         DenseReturns(hits, outcome)
    \/ TakeResults

SpecRequest == RequestInit /\ [][RequestNext]_<<requestVars, beyondRequest>>

\* C24: a retrieve call is over by its deadline, whatever the searches do:
\* once the deadline has passed the call has returned, a search that gave
\* no answer in time counts as an empty side, and the list returned without
\* the answer of a side is marked as partial.
C24_ReturnsByDeadline ==
    /\ request.clock > Deadline => request.pc = "returned"
    /\ (request.pc = "returned" /\ request.timed_out # {}) => request.partial

(***************************************************************************)
(* The boost step on its own: _apply_interpretation_boost of each          *)
(* retriever applied to a ranked list and to the rows its link query       *)
(* returns from a table.                                                   *)
(***************************************************************************)
MaxList == 3
MaxRows == 2

\* Ranked lists: distinct documents with descending positive scores.
RankedLists ==
    UNION {{[i \in 1..n |-> Result(ids[i], DocType(ids[i]), Rat(1, i), "dense")]
              : ids \in {f \in [1..n -> IndexedDocs] :
                           \A i, j \in 1..n : i # j => f[i] # f[j]}}
           : n \in 0..MaxList}

\* Tables of verified links from the statutes to the cases.
BoostLinks ==
    [statute_id : Statutes, case_id : Cases, boost_factor : {Rat(2, 1), Rat(5, 1)},
     applicability_score : {ApplNull}, verified : {"true"}]
BoostTables ==
    {t \in SUBSET BoostLinks :
        /\ Cardinality(t) <= MaxRows
        /\ \A l \in t : TableAccepts(t \ {l}, l)}

\* HybridRetriever._apply_interpretation_boost on a fused list.
HybridBoost(results, table) ==
    /\ boosting.retriever = "none"
    /\ \E rows \in RowOrders(HybridLinkRows(table, AnchorStatutes(results))) :
         boosting' = [retriever |-> "hybrid", results |-> results, rows |-> rows,
                      out |-> ApplyInterpretationBoost(results, rows)]
    /\ UNCHANGED beyondBoosting

\* InterpretationAwareRetriever: _get_interpretation_links and
\* _apply_interpretation_boost on the candidates of the dense search.
IABoost(candidates, table, cap) ==
    /\ boosting.retriever = "none"
    /\ \E rows \in IARowOrders(IALinkRows(table, IAExtractStatuteIds(candidates))) :
         boosting' = [retriever |-> "interpretation_aware",
                      results |-> candidates, rows |-> rows,
                      out |-> IAApplyInterpretationBoost(candidates, rows, cap)]
    /\ UNCHANGED beyondBoosting

\* The retriever goes on with the boosted list.
TakeBoosted ==
    /\ boosting.retriever # "none"
    /\ boosting' = NotBoosted
    /\ UNCHANGED beyondBoosting

BoostingInit ==
    /\ BoostingStart
    /\ RetrievalStart
    /\ IngestStart
    /\ ExtractStart
    /\ ReindexStart
    /\ ValidationStart
    /\ ReviewStart
    /\ EmbeddingStart
    /\ LimiterStart
    /\ ScoringStart
    /\ RequestStart

BoostingNext ==
    \/ \E results \in RankedLists, table \in BoostTables : HybridBoost(results, table)
    \/ \E candidates \in RankedLists, table \in BoostTables, cap \in 1..MaxCap :
         IABoost(candidates, table, cap)
    \/ TakeBoosted

SpecBoosting == BoostingInit /\ [][BoostingNext]_<<boostingVars, beyondBoosting>>

\* The rows that link the case at position i of the list given to the
\* boost, and the anchors they link it from.
RowsTo(i) ==
    {r \in Range(boosting.rows) : r.case_id = boosting.results[i].doc_id}
AnchorsOf(i) == {r.statute_id : r \in RowsTo(i)}

\* C25: a case of the list that is linked from several anchor statutes
\* leaves the boost with its score multiplied by one boost factor, the
\* highest of its links to those anchors, and annotated with the statute
\* of a link that has that factor.
C25_OneHighestBoost ==
    boosting.retriever # "none" =>
        \A i \in 1..Len(boosting.results) :
            Cardinality(AnchorsOf(i)) >= 2 =>
                \E l \in RowsTo(i) :
                    /\ \A r \in RowsTo(i) : RLeq(r.boost_factor, l.boost_factor)
                    /\ boosting.out[i].score =
                           RMul(boosting.results[i].score, l.boost_factor)
                    /\ boosting.out[i].interprets_statute = l.statute_id

(***************************************************************************)
(* Order of the returned list, for the calls of Spec.                      *)
(***************************************************************************)
\* Positions of the returned list whose results come from the fused
\* ranking (the others were injected by the boost).
Natural(rs) == {i \in 1..Len(rs) : rs[i].source # "interpretation_link"}

\* C26: two results of the fused ranking that have equal scores after
\* boosting stand in the returned list in the order they had in the fused
\* ranking before boosting.
C26_TiesKeepFusedOrder ==
    (Returned /\ Hybrid) =>
        \A p, q \in Natural(call.results) :
            (p < q /\ call.results[p].score = call.results[q].score) =>
                IndexOfId(call.merged, call.results[p].doc_id)
                    < IndexOfId(call.merged, call.results[q].doc_id)

\* C26 witness: the boost lifted a case to the score of a result that
\* stood before it, and both are returned.
C26_Witness ==
    /\ Returned /\ Hybrid
    /\ \E p, q \in Natural(call.results) :
         /\ p < q
         /\ call.results[p].score = call.results[q].score
         /\ call.results[q].interpretive_boost # Zero
         /\ call.results[p].interpretive_boost = Zero


(***************************************************************************)
(* INGESTION                                                               *)
(*                                                                         *)
(* PostgresLoader.load_documents on the documents table, and the           *)
(* StandardIngestionPipeline that is meant to drive it.                    *)
(***************************************************************************)
MaxDocs == 2
MaxBatch == 2

NoParent == "none"

\* ParsedDocuments a caller may hand to the loader: an act, two of its
\* sections with the same text, a schedule that names the act as its parent
\* at level 2, and an act whose id is too long.  hash is the SHA-256 of
\* full_text, so two documents with the same text have the same hash; fits
\* says whether every value fits its column (id is VARCHAR(255)).
ParsedDocs ==
    {[id |-> "act", parent_id |-> NoParent, level |-> 0, hash |-> "h_act", fits |-> TRUE],
     [id |-> "act_s1", parent_id |-> "act", level |-> 1, hash |-> "h_s1", fits |-> TRUE],
     [id |-> "act_s2", parent_id |-> "act", level |-> 1, hash |-> "h_s1", fits |-> TRUE],
     [id |-> "act_sch", parent_id |-> "act", level |-> 2, hash |-> "h_sch", fits |-> TRUE],
     [id |-> "act_long", parent_id |-> NoParent, level |-> 0, hash |-> "h_long", fits |-> FALSE]}

\* ParsedDocument's validator and DocumentParser.validate_document: a
\* document below the root names a parent.  Neither looks at the parent.
validate_document(d) == d.level > 0 => d.parent_id # NoParent

Documents == {d \in ParsedDocs : validate_document(d)}

\* Lists of distinct documents, in any order.
DocLists ==
    UNION {{l \in [1..n -> Documents] : \A i, j \in 1..n : i # j => l[i] # l[j]} :
           n \in 0..MaxDocs}

\* Neither option is read after the constructor stored it.
Loaders == [skip_existing : {TRUE}, allow_duplicates : BOOLEAN]

\* The row _load_single_document builds from a ParsedDocument.
Row(d) == [id |-> d.id, parent_id |-> d.parent_id, level |-> d.level, hash |-> d.hash]

RowIds(rows) == {r.id : r \in rows}

\* Variant: a table without the unique index on hash.
IntegrityErrorWithoutHash(rows, d) ==
    \/ d.id \in RowIds(rows)
    \/ d.parent_id # NoParent /\ d.parent_id \notin RowIds(rows)
    \/ d.level < 0 \/ d.level > 3

\* The constraints of the documents table that an INSERT of d can violate,
\* given the rows the transaction sees: the primary key, the unique index
\* on hash, the foreign key on parent_id and ck_valid_level.
IntegrityError(rows, d) ==
    \/ d.id \in RowIds(rows)
    \/ \E r \in rows : r.hash = d.hash
    \/ d.parent_id # NoParent /\ d.parent_id \notin RowIds(rows)
    \/ d.level < 0 \/ d.level > 3

\* sorted(batch, key=lambda doc: doc.level): ascending and stable.
RECURSIVE InsertByLevel(_, _)
InsertByLevel(sorted, d) ==
    IF sorted = <<>> THEN <<d>>
    ELSE IF Head(sorted).level <= d.level
    THEN <<Head(sorted)>> \o InsertByLevel(Tail(sorted), d)
    ELSE <<d>> \o sorted

RECURSIVE SortByLevel(_)
SortByLevel(batch) ==
    IF batch = <<>> THEN <<>>
    ELSE InsertByLevel(SortByLevel(SubSeq(batch, 1, Len(batch) - 1)), batch[Len(batch)])

\* A load in progress: the committed rows, the rows flushed in the open
\* transaction, whether the session awaits a rollback, and the result.
StartLoad(rows) ==
    [committed |-> rows, pending |-> {}, broken |-> FALSE, order |-> <<>>,
     inserted_ids |-> {}, skipped_ids |-> {}, failed_ids |-> {}, errors |-> 0]

\* _load_single_document inside the try of _load_batch.  The existence,
\* hash and parent checks are commented out: the document is added and
\* flushed.  An IntegrityError rolls the session back, which discards every
\* row flushed since the last commit, and records a skip.  Any other error
\* is recorded by _load_batch and leaves the session awaiting a rollback,
\* so that every later flush of the batch fails too.
LoadSingleDocument(st, d) ==
    LET seen == [st EXCEPT !.order = Append(@, d.id)]
    IN IF st.broken \/ ~d.fits
       THEN [seen EXCEPT !.broken = TRUE, !.pending = {},
                         !.failed_ids = @ \cup {d.id}, !.errors = @ + 1]
       ELSE IF IntegrityError(st.committed \cup st.pending, d)
       THEN [seen EXCEPT !.pending = {}, !.skipped_ids = @ \cup {d.id}]
       ELSE [seen EXCEPT !.pending = @ \cup {Row(d)},
                         !.inserted_ids = @ \cup {d.id}]

RECURSIVE LoadEach(_, _)
LoadEach(st, batch) ==
    IF batch = <<>> THEN st
    ELSE LoadEach(LoadSingleDocument(st, Head(batch)), Tail(batch))

\* _load_batch as load_documents sees it: one session, the batch sorted by
\* level, a commit at the end.  A commit on a session that awaits a
\* rollback raises: _load_batch records it and re-raises, load_documents
\* records it again and goes on with the next batch.
LoadBatch(st, batch) ==
    LET done == LoadEach(st, SortByLevel(batch))
    IN IF done.broken
       THEN [done EXCEPT !.pending = {}, !.broken = FALSE, !.errors = @ + 2]
       ELSE [done EXCEPT !.committed = @ \cup done.pending, !.pending = {}]

\* for i in range(0, len(documents), batch_size)
RECURSIVE LoadFrom(_, _, _, _)
LoadFrom(st, documents, batch_size, i) ==
    IF i > Len(documents) THEN st
    ELSE LoadFrom(LoadBatch(st, SubSeq(documents, i,
                                       Min2(i + batch_size - 1, Len(documents)))),
                  documents, batch_size, i + batch_size)

ResultStatus(st) ==
    IF st.errors = 0 THEN "success"
    ELSE IF st.inserted_ids # {} THEN "partial" ELSE "failed"

\* PostgresLoader.load_documents(documents, batch_size), the whole call.
LoadDocuments(documents, batch_size) ==
    /\ LET st == LoadFrom(StartLoad(store), documents, batch_size, 1)
       IN /\ store' = st.committed
          /\ run' = [status |-> "returned", entry |-> "loader",
                     documents |-> documents, batch_size |-> batch_size,
                     before |-> store,
                     again |-> /\ run.entry = "loader"
                               /\ run.documents = documents
                               /\ run.batch_size = batch_size,
                     order |-> st.order, inserted_ids |-> st.inserted_ids,
                     skipped_ids |-> st.skipped_ids, failed_ids |-> st.failed_ids,
                     errors |-> st.errors, result_status |-> ResultStatus(st)]
    /\ UNCHANGED <<loader, beyondIngestion>>

\* StandardIngestionPipeline(...).run(), as run_ingestion and
\* ingest_sample_data do it.  The constructor reads the name rules_parser,
\* which nothing defines: it raises NameError before anything is fetched.
PipelineRun ==
    /\ run' = [NoRun EXCEPT !.status = "raised", !.entry = "pipeline",
                            !.before = store]
    /\ UNCHANGED <<store, loader, beyondIngestion>>

IngestInit ==
    /\ store = {}
    /\ loader \in Loaders
    /\ run = NoRun
    /\ RetrievalStart
    /\ ExtractStart
    /\ ReindexStart
    /\ ValidationStart
    /\ ReviewStart
    /\ EmbeddingStart
    /\ LimiterStart
    /\ BoostingStart
    /\ RequestStart
    /\ ScoringStart

IngestNext ==
    \/ \E documents \in DocLists, batch_size \in 1..MaxBatch :
         LoadDocuments(documents, batch_size)
    \/ PipelineRun

SpecIngest == IngestInit /\ [][IngestNext]_<<ingestVars, beyondIngestion>>

Loaded == run.status = "returned"

\* The documents of the run, by id.
RunDoc(id) == CHOOSE d \in Range(run.documents) : d.id = id

\* C12 (as claimed): every stored document with level > 0 has a stored
\* parent with id = parent_id and level exactly one less.
C12_ParentOneLevelUp ==
    \A r \in store :
        r.level > 0 =>
            \E q \in store : q.id = r.parent_id /\ q.level = r.level - 1

\* C13 (as claimed): a load of a list that the preceding load was given,
\* with the same batch size, inserts no new document.
C13_ReingestInsertsNothing ==
    (Loaded /\ run.again) => store = run.before

\* C14 (as claimed): in every load, for any order of the list and any batch
\* size, a document whose parent is part of the same load is flushed after
\* its parent.
C14_ParentFirst ==
    Loaded =>
        \A i, j \in 1..Len(run.order) :
            RunDoc(run.order[j]).parent_id = run.order[i] => i < j

\* C15 (as claimed): an ingestion run returns a result instead of raising,
\* every document of the run is processed, and each one is recorded in the
\* result as inserted, skipped or failed.
C15_RunReturnsResult ==
    run.status # "none" =>
        /\ run.status = "returned"
        /\ \A i \in 1..Len(run.documents) :
               /\ run.documents[i].id \in Range(run.order)
               /\ run.documents[i].id \in
                      run.inserted_ids \cup run.skipped_ids \cup run.failed_ids

\* C16: unless allow_duplicates is configured, no two stored documents have
\* the same content hash.
C16_HashUnique ==
    ~loader.allow_duplicates =>
        \A r, q \in store : r.hash = q.hash => r.id = q.id

\* C16 witness: without allow_duplicates, a load offered a document whose
\* hash is stored under another id; its own id was free and its parent
\* stored, and it was skipped.
C16_Witness ==
    /\ ~loader.allow_duplicates
    /\ Loaded
    /\ \E i \in 1..Len(run.documents) :
         LET d == run.documents[i]
         IN /\ d.id \in run.skipped_ids
            /\ d.id \notin RowIds(store)
            /\ d.parent_id \in RowIds(store)
            /\ \E r \in store : r.hash = d.hash /\ r.id # d.id

\* C29: when load_documents has returned, the documents listed in
\* inserted_ids are exactly the documents the call added to the store: none
\* of them was lost to the rollback of a later document of its batch or to
\* a failed commit.
C29_InsertedAreCommitted ==
    Loaded => run.inserted_ids = RowIds(store) \ RowIds(run.before)


(***************************************************************************)
(* LINK EXTRACTION                                                         *)
(*                                                                         *)
(* run_extraction_pipeline, which merges what the two extractors return,   *)
(* and the scripts that insert extracted links into interpretation_links.  *)
(***************************************************************************)
MaxExtract == 2
MaxData == 2

\* Confidence in hundredths.  TypeClassifier.classify gives a rule-based
\* link min(0.8 + 0.05 n, 0.95) for n matched patterns; the LLM-assisted
\* extractor gives every link 0.7.
RuleConfidences == {85, 95}
LlmConfidence == 70

\* A column the INSERT does not name is NULL.
ConfNull == -1

\* case_id is the paragraph the link was extracted from.
LinkKeys == [statute_id : {"S1"}, case_id : Cases]

RuleLinks ==
    {[statute_id |-> key.statute_id, case_id |-> key.case_id, confidence |-> c,
      extraction_method |-> "RULE_BASED"] : key \in LinkKeys, c \in RuleConfidences}

LlmLinks ==
    {[statute_id |-> key.statute_id, case_id |-> key.case_id,
      confidence |-> LlmConfidence, extraction_method |-> "LLM_ASSISTED"] :
        key \in LinkKeys}

\* What an extractor returns: a list, which may name a pair more than once
\* (RuleBasedExtractor.extract appends one link per citation it finds).
ListsOf(set, n) == UNION {[1..m -> set] : m \in 0..n}

SameKey(l, m) == l.statute_id = m.statute_id /\ l.case_id = m.case_id

\* The loop of _merge_links over a dict keyed by (statute_id, case_id): a
\* new key is added at the end, a known key keeps its place and takes the
\* link only when its confidence is strictly higher.
RECURSIVE MergeInto(_, _)
MergeInto(link_map, all) ==
    IF all = <<>> THEN link_map
    ELSE LET link == Head(all)
             at == {i \in 1..Len(link_map) : SameKey(link_map[i], link)}
         IN MergeInto(IF at = {} THEN Append(link_map, link)
                      ELSE LET i == CHOOSE i \in at : TRUE
                           IN IF link.confidence > link_map[i].confidence
                              THEN [link_map EXCEPT ![i] = link]
                              ELSE link_map,
                      Tail(all))

\* Variant: the results are concatenated and nothing is dropped.
MergeLinksKeepAll(rule_based, llm_assisted) == rule_based \o llm_assisted

\* ExtractionPipeline._merge_links on self.results, which holds the
\* rule-based result first.
MergeLinks(rule_based, llm_assisted) == MergeInto(<<>>, rule_based \o llm_assisted)

\* run_extraction_pipeline: a new ExtractionPipeline runs the extractors
\* and merges their links.  Nothing is read from or written to the table.
ExtractionRun(rule_based, llm_assisted) ==
    /\ extraction' = [NoExtraction EXCEPT
                        !.kind = "pipeline",
                        !.rule_based = rule_based, !.llm_assisted = llm_assisted,
                        !.all_links = MergeLinks(rule_based, llm_assisted)]
    /\ UNCHANGED <<links, beyondExtraction>>

InsertScripts == {"insert_41_links", "insert_links_one_by_one"}

\* insert_41_links.py does not name the confidence column;
\* insert_links_one_by_one.py writes 0.8 into it.
ScriptConfidence(script) == IF script = "insert_41_links" THEN ConfNull ELSE 80

\* links_data of a script: rows of distinct pairs.
LinksData(script) ==
    {d \in ListsOf({[statute_id |-> key.statute_id, case_id |-> key.case_id,
                     boost_factor |-> Rat(2, 1), applicability_score |-> ApplNull,
                     verified |-> "true",
                     confidence |-> ScriptConfidence(script)] : key \in LinkKeys},
                   MaxData) :
        \A i, j \in 1..Len(d) : i # j => ~SameKey(d[i], d[j])}

\* One INSERT and commit per row; a row the table rejects is rolled back
\* and counted as skipped, whatever its confidence.
RECURSIVE InsertEach(_, _)
InsertEach(table, links_data) ==
    IF links_data = <<>> THEN table
    ELSE InsertEach(IF TableAccepts(table, Head(links_data))
                    THEN table \cup {Head(links_data)}
                    ELSE table,
                    Tail(links_data))

\* One of the insert scripts, from its first row to its last.
InsertLinks(script, links_data) ==
    /\ links' = InsertEach(links, links_data)
    /\ extraction' = [NoExtraction EXCEPT !.kind = script, !.links_data = links_data]
    /\ UNCHANGED beyondExtraction

ExtractInit ==
    /\ RetrievalStart
    /\ IngestStart
    /\ ReindexStart
    /\ ValidationStart
    /\ ReviewStart
    /\ EmbeddingStart
    /\ LimiterStart
    /\ BoostingStart
    /\ RequestStart
    /\ ScoringStart
    /\ ExtractStart

ExtractNext ==
    \/ \E rule_based \in ListsOf(RuleLinks, MaxExtract) :
         \E llm_assisted \in ListsOf(LlmLinks, MaxExtract - Len(rule_based)) :
           ExtractionRun(rule_based, llm_assisted)
    \/ \E script \in InsertScripts :
         \E links_data \in LinksData(script) : InsertLinks(script, links_data)

SpecExtract == ExtractInit /\ [][ExtractNext]_<<links, extractVars, beyondExtraction>>

Merged == extraction.kind = "pipeline"

Extracted == extraction.rule_based \o extraction.llm_assisted

\* C17: no two links of a merged list, and no two rows of the table, have
\* the same (statute_id, case_id).
C17_PairUnique ==
    /\ \A i, j \in 1..Len(extraction.all_links) :
           i # j => ~SameKey(extraction.all_links[i], extraction.all_links[j])
    /\ \A l, m \in links : SameKey(l, m) => l = m

\* C17 witness: the extractors returned more than one link for a pair, and
\* the run merged them.
C17_Witness ==
    /\ Merged
    /\ \E i, j \in 1..Len(Extracted) : i # j /\ SameKey(Extracted[i], Extracted[j])
    /\ Len(extraction.all_links) < Len(Extracted)

\* C18 (as claimed): of the links extracted for a pair, the one kept has
\* the highest confidence, in whatever order they came and also when an
\* older record for the pair was already there.
C18_HighestConfidenceKept ==
    /\ Merged =>
           \A i \in 1..Len(Extracted) :
               \E k \in 1..Len(extraction.all_links) :
                   /\ SameKey(extraction.all_links[k], Extracted[i])
                   /\ extraction.all_links[k].confidence >= Extracted[i].confidence
    /\ extraction.kind \in InsertScripts =>
           \A i \in 1..Len(extraction.links_data) :
               \E l \in links :
                   /\ SameKey(l, extraction.links_data[i])
                   /\ l.confidence >= extraction.links_data[i].confidence


(***************************************************************************)
(* REINDEX                                                                 *)
(*                                                                         *)
(* scripts/initialize_faiss.py rebuilds the dense index while processes    *)
(* load it.  create_faiss_index writes the index to output_path itself     *)
(* and then the mapping to the file next to it; there is no side           *)
(* directory, no pointer and no lock.                                      *)
(***************************************************************************)
MaxGen == 2

\* create_faiss_index is started: it reads the documents, of which there
\* may be none, and computes the embeddings of a new generation in memory.
StartReindex(empty) ==
    /\ reindex.pc = "idle"
    /\ reindex.gen < MaxGen
    /\ reindex' = [pc |-> "embedded", gen |-> reindex.gen + 1, empty |-> empty]
    /\ UNCHANGED <<index_file, mapping_file, reader, beyondReindex>>

\* faiss.write_index(index, output_path) opens the live file for writing.
OpenIndexFile ==
    /\ reindex.pc = "embedded"
    /\ index_file' = Partial(reindex.gen)
    /\ reindex' = [reindex EXCEPT !.pc = "writing_index"]
    /\ UNCHANGED <<mapping_file, reader, beyondReindex>>

\* faiss.write_index returns.  With no documents create_faiss_index returns
\* here and leaves the mapping file as it was.
CloseIndexFile ==
    /\ reindex.pc = "writing_index"
    /\ index_file' = Written(reindex.gen)
    /\ reindex' = [reindex EXCEPT !.pc = IF reindex.empty THEN "idle" ELSE "index_written"]
    /\ UNCHANGED <<mapping_file, reader, beyondReindex>>

\* open(mapping_path, 'w') truncates the live mapping.
OpenMappingFile ==
    /\ reindex.pc = "index_written"
    /\ mapping_file' = Partial(reindex.gen)
    /\ reindex' = [reindex EXCEPT !.pc = "writing_mapping"]
    /\ UNCHANGED <<index_file, reader, beyondReindex>>

\* json.dump has written the mapping and the with block closes the file.
CloseMappingFile ==
    /\ reindex.pc = "writing_mapping"
    /\ mapping_file' = Written(reindex.gen)
    /\ reindex' = [reindex EXCEPT !.pc = "idle"]
    /\ UNCHANGED <<index_file, reader, beyondReindex>>

\* A process starts to build a retriever: faiss.read_index reads whatever
\* the index file holds.  It raises on a file that is not whole.
LoadIndex ==
    /\ reader.pc = "idle"
    /\ reader' = [NoReader EXCEPT
                    !.pc = IF index_file.complete THEN "index_loaded" ELSE "raised",
                    !.index = index_file]
    /\ UNCHANGED <<index_file, mapping_file, reindex, beyondReindex>>

\* ... then json.load reads whatever the mapping file holds, and raises on
\* a file that is not whole.  With both loaded the retriever answers its
\* queries from them.
LoadMapping ==
    /\ reader.pc = "index_loaded"
    /\ reader' = [reader EXCEPT
                    !.pc = IF mapping_file.complete THEN "ready" ELSE "raised",
                    !.mapping = mapping_file]
    /\ UNCHANGED <<index_file, mapping_file, reindex, beyondReindex>>

\* The process ends, with or without having answered.
EndReader ==
    /\ reader.pc \in {"ready", "raised"}
    /\ reader' = NoReader
    /\ UNCHANGED <<index_file, mapping_file, reindex, beyondReindex>>

ReindexInit ==
    /\ ReindexStart
    /\ RetrievalStart
    /\ IngestStart
    /\ ExtractStart
    /\ ValidationStart
    /\ ReviewStart
    /\ EmbeddingStart
    /\ LimiterStart
    /\ BoostingStart
    /\ RequestStart
    /\ ScoringStart

ReindexNext ==
    \/ \E empty \in BOOLEAN : StartReindex(empty)
    \/ OpenIndexFile
    \/ CloseIndexFile
    \/ OpenMappingFile
    \/ CloseMappingFile
    \/ LoadIndex
    \/ LoadMapping
    \/ EndReader

SpecReindex == ReindexInit /\ [][ReindexNext]_<<reindexVars, beyondReindex>>

\* C19 (as claimed): what a process has loaded is one complete generation:
\* no file that was still being written, and an index and a mapping of the
\* same generation.
C19_OneGeneration ==
    /\ reader.index # NotLoaded => reader.index.complete
    /\ reader.mapping # NotLoaded =>
           /\ reader.mapping.complete
           /\ reader.mapping.gen = reader.index.gen


(***************************************************************************)
(* VALIDATION                                                              *)
(*                                                                         *)
(* The validation pipeline behind validate_answer: per request             *)
(* init -> synthesis_scored -> (hallucination_checked)? -> decided.        *)
(* Scores and rates are in hundredths.                                     *)
(***************************************************************************)
PassScore == 70
PassRate == 5
RejectRate == 15

\* Values on both sides of every threshold.
Scores == {0, PassScore - 1, PassScore, 100}
Rates == {0, PassRate, PassRate + 1, RejectRate, RejectRate + 1, 100}

\* What a stage can report besides its result.
Severities == {"error", "fatal"}

\* Variant: a synthesis score of exactly 0.70 does not pass.
DecisionAboveThreshold(s, h, errors) ==
    IF s > PassScore /\ h <= PassRate /\ errors = {} THEN "pass"
    ELSE IF h > RejectRate \/ "fatal" \in errors THEN "reject"
    ELSE "review"

\* The decision rule.
Decision(s, h, errors) ==
    IF s >= PassScore /\ h <= PassRate /\ errors = {} THEN "pass"
    ELSE IF h > RejectRate \/ "fatal" \in errors THEN "reject"
    ELSE "review"

\* The synthesis scorer returns the overall score.
ScoreSynthesis(s, errors) ==
    /\ validation.stage = "init"
    /\ validation' = [validation EXCEPT !.stage = "synthesis_scored", !.s = s,
                                        !.errors = errors]
    /\ UNCHANGED beyondValidation

\* The hallucination detector returns the hallucination rate, together with
\* the errors it reports.
CheckHallucination(h, errors) ==
    /\ validation.stage = "synthesis_scored"
    /\ validation' = [validation EXCEPT
                        !.stage = "hallucination_checked",
                        !.h = h,
                        !.errors = @ \cup errors]
    /\ UNCHANGED beyondValidation

\* Variant: the failure of a stage leaves no trace in the result.
StageFailedSilently(v, stage) == [v EXCEPT !.stage = stage \o "_failed"]

\* A stage failed with an internal error: stages_failed += 1 and a warning.
StageFailed(v, stage) ==
    [v EXCEPT !.stage = stage \o "_failed",
              !.stages_failed = @ + 1,
              !.warnings = @ \cup {stage}]

\* The hallucination detector fails with an internal error: the pipeline
\* records it and goes on with the synthesis score alone.
HallucinationFails ==
    /\ validation.stage = "synthesis_scored"
    /\ validation' = StageFailed(validation, "hallucination")
    /\ UNCHANGED beyondValidation

\* The result is built, with or without the hallucination stage, and the
\* endpoint copies its decision into the response.
Decide ==
    /\ validation.stage \in {"synthesis_scored", "hallucination_checked",
                            "hallucination_failed"}
    /\ validation' = [validation EXCEPT
                        !.stage = "decided",
                        !.decided_after = validation.stage,
                        !.decision = Decision(validation.s, validation.h,
                                              validation.errors)]
    /\ UNCHANGED beyondValidation

\* The next request arrives.
NextRequest ==
    /\ validation.stage = "decided"
    /\ validation' = NewRequest
    /\ UNCHANGED beyondValidation

ValidationInit ==
    /\ ValidationStart
    /\ ReviewStart
    /\ EmbeddingStart
    /\ LimiterStart
    /\ BoostingStart
    /\ RequestStart
    /\ ScoringStart
    /\ RetrievalStart
    /\ IngestStart
    /\ ExtractStart
    /\ ReindexStart

ValidationNext ==
    \/ \E s \in Scores, errors \in SUBSET Severities : ScoreSynthesis(s, errors)
    \/ \E h \in Rates, errors \in SUBSET Severities : CheckHallucination(h, errors)
    \/ HallucinationFails
    \/ Decide
    \/ NextRequest

SpecValidation ==
    ValidationInit /\ [][ValidationNext]_<<validationVars, beyondValidation>>

Decided == validation.stage = "decided"

\* C20: the decision of a result is pass exactly when s >= 0.70, h <= 0.05
\* and no stage reported an error; reject exactly when h > 0.15 or a stage
\* reported a fatal error; review in every other case.
C20_DecisionRule ==
    Decided =>
        LET s == validation.s
            h == validation.h
            pass == s >= 70 /\ h <= 5 /\ validation.errors = {}
            reject == h > 15 \/ "fatal" \in validation.errors
        IN /\ validation.decision \in {"pass", "review", "reject"}
           /\ validation.decision = "pass" <=> pass
           /\ validation.decision = "reject" <=> reject
           /\ validation.decision = "review" <=> (~pass /\ ~reject)

\* C20 witness: a result at the thresholds, s = 0.70 and h = 0.05 with no
\* error, after both stages.
C20_Witness ==
    /\ Decided
    /\ validation.s = 70 /\ validation.h = 5 /\ validation.errors = {}
    /\ validation.decision = "pass"

\* The request was decided after the hallucination detector had failed.
DecidedAfterFailure ==
    Decided /\ validation.decided_after = "hallucination_failed"

\* C22: when the hallucination detector fails with an internal error the
\* request still reaches a decision, taken from the synthesis score alone
\* (pass when s >= 0.70 and no stage reported an error, reject on a fatal
\* error, review otherwise), with stages_failed incremented and a warning
\* recorded; the pipeline ends in a result, never in an exception.
C22_DecidesAfterStageFailure ==
    /\ validation.stage \in {"init", "synthesis_scored",
                             "hallucination_checked", "hallucination_failed",
                             "decided"}
    /\ validation.stage = "hallucination_failed" =>
           /\ ENABLED Decide
           /\ validation.stages_failed = 1
           /\ "hallucination" \in validation.warnings
    /\ DecidedAfterFailure =>
           /\ validation.decision \in {"pass", "review", "reject"}
           /\ validation.decision =
                  (IF validation.s >= 70 /\ validation.errors = {} THEN "pass"
                   ELSE IF "fatal" \in validation.errors THEN "reject"
                   ELSE "review")
           /\ validation.stages_failed = 1
           /\ "hallucination" \in validation.warnings

\* C22 witness: a passing decision taken after the detector failed.
C22_Witness ==
    /\ DecidedAfterFailure
    /\ validation.s = 70
    /\ validation.decision = "pass"
    /\ validation.stages_failed = 1


(***************************************************************************)
(* SYNTHESIS SCORER                                                        *)
(*                                                                         *)
(* SynthesisQualityScorer.score_answer, as used by                         *)
(* examples/synthesis_scoring_examples.py.  The module                     *)
(* validation/synthesis_quality_scorer.py is not among the sources, so     *)
(* the weighting is the one of section 4.6 of the specification:           *)
(*   overall = sum of weight_i * section_score_i,  passed = overall >= 0.70*)
(* Section scores and weights are in hundredths, the overall score in      *)
(* ten-thousandths.                                                        *)
(***************************************************************************)
StatuteWeight == 25
InterpretationWeight == 25
SynthesisWeight == 30
PracticalEffectWeight == 20
PassOverall == 7000

\* Section scores: a missing section, a weak one, a good one, full credit.
SectionScores == {0, 50, 75, 100}

\* passed = overall >= 0.70
Passed(overall) == overall >= PassOverall

\* overall = sum of weight_i * section_score_i
Overall(statute, interpretation, synthesis, practical_effect) ==
    StatuteWeight * statute + InterpretationWeight * interpretation
        + SynthesisWeight * synthesis + PracticalEffectWeight * practical_effect

\* score_answer: the heuristics give each section its score, the scorer
\* weighs them and takes the verdict.
ScoreAnswer(statute, interpretation, synthesis, practical_effect) ==
    /\ scoring' =
           [scored |-> TRUE, statute |-> statute,
            interpretation |-> interpretation, synthesis |-> synthesis,
            practical_effect |-> practical_effect,
            overall |-> Overall(statute, interpretation, synthesis,
                                practical_effect),
            passed |-> Passed(Overall(statute, interpretation, synthesis,
                                      practical_effect))]
    /\ UNCHANGED beyondScoring

ScoringInit ==
    /\ ScoringStart
    /\ RetrievalStart
    /\ IngestStart
    /\ ExtractStart
    /\ ReindexStart
    /\ ValidationStart
    /\ ReviewStart
    /\ EmbeddingStart
    /\ LimiterStart
    /\ BoostingStart
    /\ RequestStart

ScoringNext ==
    \E statute \in SectionScores, interpretation \in SectionScores,
       synthesis \in SectionScores, practical_effect \in SectionScores :
        ScoreAnswer(statute, interpretation, synthesis, practical_effect)

SpecScoring == ScoringInit /\ [][ScoringNext]_<<scoringVars, beyondScoring>>

\* C21: an answer whose synthesis section scores 0 has an overall score
\* below 0.70 and does not pass, whatever the other three sections score.
C21_MissingSynthesisFails ==
    (scoring.scored /\ scoring.synthesis = 0) =>
        /\ scoring.overall < 7000
        /\ ~scoring.passed


(***************************************************************************)
(* RATE LIMITING                                                           *)
(*                                                                         *)
(* RateLimitMiddleware(app, max_requests, window_seconds).  dispatch does  *)
(* not await between cleaning, testing and recording, so these are one     *)
(* step.  Time is in seconds and does not run backwards; several requests  *)
(* can arrive in the same second.  A key that is not in request_counts     *)
(* behaves as a key with an empty list.                                    *)
(***************************************************************************)
max_requests == 2
window_seconds == 2
MaxTime == 4

Paths == {"/api/health", "/api/validate"}

\* The entries of a list of timestamps that are later than cutoff_time.
Later(entries, cutoff_time) == SelectSeq(entries, LAMBDA ts : ts > cutoff_time)

\* _clean_old_entries
CleanOldEntries(entries, current_time) ==
    Later(entries, current_time - window_seconds)

\* Variant: the limit is reached one request later.
IsRateLimitedAbove(entries, current_time) ==
    Len(Later(entries, current_time - window_seconds)) > max_requests

\* _is_rate_limited: each entry counts 1.
IsRateLimited(entries, current_time) ==
    Len(Later(entries, current_time - window_seconds)) >= max_requests

\* Time passes between requests.
Advance ==
    /\ limiter.now < MaxTime
    /\ limiter' = [limiter EXCEPT !.now = @ + 1]
    /\ UNCHANGED beyondLimiter

\* dispatch: one request of api_key for path.
Dispatch(api_key, path) ==
    /\ LET current_time == limiter.now
           seen == Len(Later(limiter.passed[api_key],
                             current_time - window_seconds))
           cleaned == CleanOldEntries(limiter.request_counts[api_key],
                                      current_time)
       IN IF path = "/api/health"
          THEN limiter' = [limiter EXCEPT
                             !.last = [api_key |-> api_key, path |-> path,
                                       status |-> 200, seen |-> seen]]
          ELSE IF IsRateLimited(cleaned, current_time)
          THEN limiter' = [limiter EXCEPT
                             !.request_counts[api_key] = cleaned,
                             !.last = [api_key |-> api_key, path |-> path,
                                       status |-> 429, seen |-> seen]]
          ELSE limiter' = [limiter EXCEPT
                             !.request_counts[api_key] =
                                 Append(cleaned, current_time),
                             !.passed[api_key] = Append(@, current_time),
                             !.last = [api_key |-> api_key, path |-> path,
                                       status |-> 200, seen |-> seen]]
    /\ UNCHANGED beyondLimiter

LimiterInit ==
    /\ LimiterStart
    /\ RetrievalStart
    /\ IngestStart
    /\ ExtractStart
    /\ ReindexStart
    /\ ValidationStart
    /\ ReviewStart
    /\ EmbeddingStart
    /\ ScoringStart
    /\ RequestStart
    /\ BoostingStart

LimiterNext ==
    \/ Advance
    \/ \E api_key \in ApiKeys, path \in Paths : Dispatch(api_key, path)

SpecLimiter == LimiterInit /\ [][LimiterNext]_<<limiterVars, beyondLimiter>>

\* The requests of a key let through in the window_seconds that end at t.
PassedInWindow(api_key, t) ==
    Len(Later(SelectSeq(limiter.passed[api_key], LAMBDA ts : ts <= t),
              t - window_seconds))

\* C27: of the requests of one API key that are not health checks, at most
\* max_requests are let through within any window_seconds, and a request
\* that arrives when max_requests of its key were let through within the
\* last window_seconds is answered with 429.
C27_AtMostMaxPerWindow ==
    /\ \A api_key \in ApiKeys, t \in 0..MaxTime :
         PassedInWindow(api_key, t) <= max_requests
    /\ (limiter.last.path = "/api/validate" /\ limiter.last.seen >= max_requests)
           => limiter.last.status = 429

\* C27 witness: a key that used up its window is refused, and served again
\* once the window has moved on.
C27_Witness ==
    \E api_key \in ApiKeys :
        /\ Len(limiter.passed[api_key]) > max_requests
        /\ limiter.last = [api_key |-> api_key, path |-> "/api/validate",
                           status |-> 429, seen |-> max_requests]


(***************************************************************************)
(* EMBEDDINGS                                                              *)
(*                                                                         *)
(* generate_embeddings(texts, client, model, batch_size, dimension),       *)
(* followed from one client.embeddings.create call to the next.  Texts     *)
(* are numbered 1..texts; i is the 0-based start of the current batch.     *)
(***************************************************************************)
max_retries == 3
MaxTexts == 3
MaxEmbedBatch == 2

\* What happens to a create call, as the except branch tells the errors
\* apart by their message.
CreateOutcomes == {"success", "rate_limit", "too_long", "other"}

\* The texts of the batch that starts at i.
BatchOf(e) ==
    [j \in 1..(Min2(e.i + e.batch_size, e.texts) - e.i) |-> e.i + j]

\* [item.embedding for item in response.data]
BatchEmbeddings(e) == BatchOf(e)

\* [[0.0] * dimension for _ in range(len(batch))]
ZeroVectors(e) == [j \in 1..Len(BatchOf(e)) |-> 0]

\* The code after the while loop of a batch, and the end of the function
\* after the last batch: np.array and the shape assertion.
AfterLoop(e, embeddings, retry_count) ==
    LET extended == IF retry_count >= max_retries
                    THEN embeddings \o ZeroVectors(e)
                    ELSE embeddings
        next_i == e.i + e.batch_size
    IN [e EXCEPT !.embeddings = extended,
                 !.i = next_i,
                 !.retry_count = 0,
                 !.pc = IF next_i < e.texts THEN "create"
                        ELSE IF Len(extended) = e.texts THEN "returned"
                        ELSE "raised"]

\* generate_embeddings is called on a list of texts.
GenerateEmbeddings(texts, batch_size) ==
    /\ embedding.pc = "idle"
    /\ embedding' = [NoEmbedding EXCEPT !.pc = "create", !.texts = texts,
                                        !.batch_size = batch_size]
    /\ UNCHANGED beyondEmbedding

\* client.embeddings.create at the head of the while loop ends.
CreateEnds(outcome) ==
    /\ embedding.pc = "create"
    /\ LET e == embedding
           retry_count == e.retry_count + 1
       IN embedding' =
            CASE outcome = "success" ->
                   AfterLoop(e, e.embeddings \o BatchEmbeddings(e), e.retry_count)
              [] outcome = "rate_limit" ->
                   IF retry_count < max_retries
                   THEN [e EXCEPT !.retry_count = retry_count]
                   ELSE AfterLoop(e, e.embeddings, retry_count)
              [] outcome = "too_long" ->
                   [e EXCEPT !.retry_count = retry_count,
                             !.pc = "create_truncated"]
              [] outcome = "other" ->
                   AfterLoop(e, e.embeddings \o ZeroVectors(e), retry_count)
    /\ UNCHANGED beyondEmbedding

\* The second create call, on the batch truncated further, ends.
TruncatedCreateEnds(succeeds) ==
    /\ embedding.pc = "create_truncated"
    /\ embedding' =
           AfterLoop(embedding,
                     embedding.embeddings \o
                         (IF succeeds THEN BatchEmbeddings(embedding)
                          ELSE ZeroVectors(embedding)),
                     embedding.retry_count)
    /\ UNCHANGED beyondEmbedding

\* The caller has the array, or the exception.
EndEmbedding ==
    /\ embedding.pc \in {"returned", "raised"}
    /\ embedding' = NoEmbedding
    /\ UNCHANGED beyondEmbedding

EmbeddingInit ==
    /\ EmbeddingStart
    /\ RetrievalStart
    /\ IngestStart
    /\ ExtractStart
    /\ ReindexStart
    /\ ValidationStart
    /\ ReviewStart
    /\ ScoringStart
    /\ RequestStart
    /\ BoostingStart
    /\ LimiterStart

EmbeddingNext ==
    \/ \E texts \in 1..MaxTexts, batch_size \in 1..MaxEmbedBatch :
         GenerateEmbeddings(texts, batch_size)
    \/ \E outcome \in CreateOutcomes : CreateEnds(outcome)
    \/ \E succeeds \in BOOLEAN : TruncatedCreateEnds(succeeds)
    \/ EndEmbedding

SpecEmbedding ==
    EmbeddingInit /\ [][EmbeddingNext]_<<embeddingVars, beyondEmbedding>>

\* C28: whatever the create calls do, generate_embeddings returns, and
\* returns one vector per text in the order of the texts, each the
\* embedding of its text or a zero vector.
C28_OneVectorPerText ==
    embedding.pc \in {"returned", "raised"} =>
        /\ embedding.pc = "returned"
        /\ Len(embedding.embeddings) = embedding.texts
        /\ \A j \in 1..Len(embedding.embeddings) :
               embedding.embeddings[j] \in {j, 0}


(***************************************************************************)
(* REVIEW QUEUE                                                            *)
(*                                                                         *)
(* render_review_item shows a reviewer one item as its session read it,    *)
(* with the action buttons when that copy is pending; a button calls the   *)
(* method of ReviewActions, which loads the row by id, writes the three    *)
(* columns and commits.                                                    *)
(***************************************************************************)
ReviewMethods == {"approve_answer", "reject_answer", "request_revision"}

\* Feedback typed into the form: nothing, or a comment.
Feedbacks == {"none", "comment"}

\* The status each method writes.
StatusOf(method) ==
    CASE method = "approve_answer" -> "approved"
      [] method = "reject_answer" -> "rejected"
      [] method = "request_revision" -> "revision_requested"

\* The row after approve_answer, reject_answer or request_revision: the
\* methods differ in the status only and do not read the row's status.
Reviewed(row, method, reviewer_id, feedback) ==
    [row EXCEPT !.review_status = StatusOf(method),
                !.reviewer_id = reviewer_id,
                !.reviewer_feedback = feedback]

\* A reviewer's session renders an item of the queue.
RenderReviewItem(reviewer, id) ==
    /\ review' = [review EXCEPT
                    !.pages[reviewer] =
                        [id |-> id,
                         review_status |-> review.results[id].review_status]]
    /\ UNCHANGED beyondReview

\* A reviewer presses a button of the item on its page.  Reject and request
\* revision need feedback.  The method returns True after its commit and the
\* page is rendered again; when the commit fails it rolls back and returns
\* False.
PressButton(reviewer, method, feedback, commits) ==
    /\ review.pages[reviewer].review_status = "pending"
    /\ method # "approve_answer" => feedback # "none"
    /\ LET id == review.pages[reviewer].id
           row == Reviewed(review.results[id], method, reviewer, feedback)
       IN IF commits
          THEN review' = [review EXCEPT
                            !.results[id] = row,
                            !.first[id] = IF @.review_status = "pending"
                                          THEN row ELSE @,
                            !.pages[reviewer] =
                                [id |-> id, review_status |-> row.review_status]]
          ELSE UNCHANGED review
    /\ UNCHANGED beyondReview

ReviewInit ==
    /\ ReviewStart
    /\ RetrievalStart
    /\ IngestStart
    /\ ExtractStart
    /\ ReindexStart
    /\ ValidationStart
    /\ ScoringStart
    /\ RequestStart
    /\ BoostingStart
    /\ LimiterStart
    /\ EmbeddingStart

ReviewNext ==
    \/ \E reviewer \in Reviewers, id \in ResultIds : RenderReviewItem(reviewer, id)
    \/ \E reviewer \in Reviewers, method \in ReviewMethods,
          feedback \in Feedbacks, commits \in BOOLEAN :
         PressButton(reviewer, method, feedback, commits)

SpecReview == ReviewInit /\ [][ReviewNext]_<<reviewVars, beyondReview>>

\* C30: a result that has been approved, rejected or sent back for revision
\* keeps the status, the reviewer and the feedback of that first review;
\* later review actions do not overwrite them.
C30_ReviewedOnce ==
    \A id \in ResultIds :
        review.first[id].review_status # "pending" =>
            review.results[id] = review.first[id]

=============================================================================
